---- MODULE Spec2Model ----
(***************************************************************************)
(* Delivery pipeline of the smart whiteboard eraser backend                *)
(* (src/queue_uploader.py, driven by src/main.py and src/image_capture.py).*)
(*                                                                         *)
(* A file of the spool directory is the record [ts, ext] of the filename   *)
(* "whiteboard_<ts>.<ext>"; os.path.join(queue_dir, filename) prefixes     *)
(* every name with the same directory, so a path is identified with its    *)
(* filename.  Producer calls are serialised by self.lock, so one producer  *)
(* position stands for all producer threads; the worker takes no lock and  *)
(* its statements interleave with the producer's.                          *)
(***************************************************************************)
EXTENDS Integers, Sequences, FiniteSets, TLC

\* ------------------------------------------------------------------ bounds
MaxClock == 1
MaxCalls == 2
MaxThreads == 2
MaxCrashes == 1
MaxFiles == 4
MaxSessions == 2
MaxCommands == 2
MaxErases == 2

\* ------------------------------------------------------------- file names
Stamps == 0..MaxClock
Exts == {"jpg", "png", "tmp"}
File == [ts : Stamps, ext : Exts]
NoFile == [ts |-> -1, ext |-> "none"]
F(t, e) == [ts |-> t, ext |-> e]

\* what the process may find in the queue directory when it starts: nothing,
\* an image a previous run left there next to some other file, or two images
Leftovers == {{}, {F(0, "png"), F(0, "tmp")}, {F(0, "jpg"), F(0, "png")}}

\* mutant: only .jpg files are taken
IsImageNameJpgOnly(f) == f.ext = "jpg"

\* filename.endswith(('.jpg', '.jpeg', '.png'))
IsImageName(f) == f.ext \in {"jpg", "jpeg", "png"}

\* string order of the extensions that occur
ExtOrder == <<"jpeg", "jpg", "none", "png", "tmp">>
ExtRank(e) == CHOOSE i \in 1..Len(ExtOrder) : ExtOrder[i] = e

\* str.__lt__ on two filenames "whiteboard_<ts>.<ext>" (ts is zero padded)
NameLess(f, g) == \/ f.ts < g.ts
                  \/ f.ts = g.ts /\ ExtRank(f.ext) < ExtRank(g.ext)

\* an artifact is a file named by the image naming convention
IsArtifact(f) == f.ext \in {"jpg", "jpeg", "png"}

\* the artifact files of a directory
Artifacts(dir) == {f \in dir : IsArtifact(f)}

\* mutant: the name does not embed the clock reading
StampedNameFixed(t) == F(0, "jpg")

\* whiteboard_<timestamp>.jpg
StampedName(t) == F(t, "jpg")

\* -------------------------------------------------------- sequence helpers
Range(s) == {s[i] : i \in 1..Len(s)}
Count(x, s) == Cardinality({i \in 1..Len(s) : s[i] = x})
IsPrefix(s, t) == Len(s) <= Len(t) /\ \A i \in 1..Len(s) : s[i] = t[i]

\* os.listdir: every file of the directory once, in an arbitrary order
RECURSIVE ListDir(_)
ListDir(dir) ==
    IF dir = {} THEN {<<>>}
    ELSE UNION {{<<f>> \o s : s \in ListDir(dir \ {f})} : f \in dir}

RECURSIVE InsertSorted(_, _)
InsertSorted(f, s) ==
    IF s = <<>> THEN <<f>>
    ELSE IF NameLess(f, Head(s)) THEN <<f>> \o s
         ELSE <<Head(s)>> \o InsertSorted(f, Tail(s))

\* sorted(...)
RECURSIVE Sorted(_)
Sorted(s) == IF s = <<>> THEN <<>> ELSE InsertSorted(Head(s), Sorted(Tail(s)))

RECURSIVE ImagesOf(_)
ImagesOf(s) ==
    IF s = <<>> THEN <<>>
    ELSE IF IsImageName(Head(s)) THEN <<Head(s)>> \o ImagesOf(Tail(s))
         ELSE ImagesOf(Tail(s))

\* mutant: the directory listing is not sorted
LoadedEntriesUnsorted(listing) == ImagesOf(listing)

\* the entries _load_existing_files puts, in order, for one directory listing
LoadedEntries(listing) == ImagesOf(Sorted(listing))

Threads == 1..MaxThreads

VARIABLES
    spool,          \* files present in queue_dir
    now,            \* datetime.now(), in clock ticks
    uploads,        \* remote store: successful uploads per path
    phase,          \* "off", "ready", "serving", "stopping", "stopped",
                    \* "restarting"
    image_queue,    \* self.image_queue
    queue_paths,    \* self.queue_paths
    running,        \* self.running
    authenticated,  \* self.authenticated
    drive,          \* self.drive: "none" or "client"
    auth_ret,       \* what the last authenticate() call returned
    upload_thread,  \* self.upload_thread (0 = None)
    wpc,            \* position of each process_queue thread
    cur,            \* its local filepath
    gate,           \* result of its check_internet_connection() this iteration
    res,            \* result of its upload_image() this iteration
    ppc,            \* position of the producer call in progress
    parg,           \* its filepath
    pout,           \* what the call did, once it has returned
    pret,           \* the value it returned
    ncalls,         \* producer calls started so far
    pending,        \* paths enqueued and not yet attempted, oldest first
    fifo_ok,        \* every attempt so far was for the oldest pending path
    any_fail,       \* some upload_image call returned False
    owed,           \* image files found at construction, not delivered since
    crashes,        \* crashes of the process so far
    deq_size,       \* queue size before the worker's dequeue, plus later puts
    meta,           \* how far upload_image got past the upload, this iteration
    kept,           \* files an os.remove failed on and that are still there
    reported,       \* queue_size of the last status report (-1: none yet)
    active,         \* Session.active
    session_id,     \* Session.session_id (0 = None)
    sessions,       \* the Session table: "none", "open" or "ended" per id
    spc,            \* position of each thread that runs a session command
    sid,            \* its local session_id (start) or argument (end)
    sret,           \* what its last Session call returned
    erasing,        \* MotorControl.erasing
    motor_paused,   \* MotorControl.motor_paused
    reset_requested,\* MotorControl.reset_requested
    erase_thread,   \* MotorControl.erase_thread (0 = None)
    mpc,            \* position of each _erase_process thread
    rpc,            \* position of the _reset_process thread
    mcall,          \* the MotorControl call that is waiting in a join
    mret            \* what the last MotorControl call returned

vars == <<spool, now, uploads, phase, image_queue, queue_paths, running,
          authenticated, drive, auth_ret, upload_thread, wpc, cur, gate, res, ppc, parg, pout,
          pret, ncalls, pending, fifo_ok, any_fail, owed, crashes, deq_size,
          meta, kept, reported, active, session_id, sessions, spc, sid, sret,
          erasing, motor_paused, reset_requested, erase_thread, mpc,
          rpc, mcall, mret>>

env == <<spool, now, uploads>>
qvars == <<image_queue, queue_paths>>
wvars == <<wpc, cur, gate, res>>
pvars == <<ppc, parg, pout, pret, ncalls>>
hist == <<pending, fifo_ok, any_fail, owed, crashes, deq_size, meta, kept,
         reported>>
svars == <<active, session_id, sessions, spc, sid, sret>>
mvars == <<erasing, motor_paused, reset_requested, erase_thread, mpc, rpc,
          mcall, mret>>

\* ids of the Session table, threads that run commands, _erase_process threads
SessionIds == 1..MaxSessions
Commands == 1..MaxCommands
Erases == 1..MaxErases

\* Python's None as a return value
None == NoFile

\* ------------------------------------------------------------------- Init
\* nothing is constructed yet
Fresh ==
    /\ now = 0
    /\ uploads = [f \in File |-> 0]
    /\ phase = "off"
    /\ image_queue = <<>>
    /\ queue_paths = {}
    /\ running = FALSE
    /\ authenticated = FALSE
    /\ drive = "none"
    /\ auth_ret = "none"
    /\ upload_thread = 0
    /\ wpc = [t \in Threads |-> "none"]
    /\ cur = [t \in Threads |-> NoFile]
    /\ gate = [t \in Threads |-> "none"]
    /\ res = [t \in Threads |-> "none"]
    /\ ppc = "idle"
    /\ parg = NoFile
    /\ pout = "none"
    /\ pret = None
    /\ ncalls = 0
    /\ pending = <<>>
    /\ fifo_ok = TRUE
    /\ any_fail = FALSE
    /\ owed = {}
    /\ crashes = 0
    /\ deq_size = 0
    /\ meta = [t \in Threads |-> "none"]
    /\ kept = {}
    /\ reported = -1
    /\ active = FALSE
    /\ session_id = 0
    /\ sessions = [i \in SessionIds |-> "none"]
    /\ spc = [c \in Commands |-> "idle"]
    /\ sid = [c \in Commands |-> 0]
    /\ sret = [c \in Commands |-> "none"]
    /\ erasing = FALSE
    /\ motor_paused = FALSE
    /\ reset_requested = FALSE
    /\ erase_thread = 0
    /\ mpc = [k \in Erases |-> "none"]
    /\ rpc = "none"
    /\ mcall = "none"
    /\ mret = "none"

\* the process is about to be started over whatever the directory holds
Init == spool \in Leftovers /\ Fresh

\* ------------------------------------------------------------ environment
\* the wall clock advances
Tick ==
    /\ now < MaxClock
    /\ now' = now + 1
    /\ UNCHANGED <<spool, uploads, phase, qvars, running, authenticated,
                   drive, auth_ret, upload_thread, wvars, pvars, hist, svars,
                   mvars>>

\* ----------------------------------------------------------- construction
\* mutant: the uploader is constructed again while the service runs
ConstructedNever(ph) == FALSE

\* the service has constructed its QueueUploader (SmartEraserService.__init__
\* does it once)
Constructed(ph) == ph # "off"

\* QueueUploader.__init__: empty queue and set, then _load_existing_files
Construct ==
    /\ ~Constructed(phase)
    /\ \E listing \in ListDir(spool) :
          /\ image_queue' = LoadedEntries(listing)
          /\ queue_paths' = Range(LoadedEntries(listing))
          /\ pending' = LoadedEntries(listing)
    /\ owed' = {f \in spool : IsArtifact(f)}
    /\ phase' = "ready"
    /\ UNCHANGED <<env, running, authenticated, drive, auth_ret,
                   upload_thread, wvars, pvars, fifo_ok, any_fail, crashes,
                   svars, mvars, reported, deq_size, meta, kept>>

\* thread t has dequeued a path and has neither delivered nor requeued it
Holding(t) == wpc[t] \in {"discard", "call", "auth", "xfer", "record",
                          "link", "link_in", "link_send", "putback",
                          "addback"}

\* thread t is in an iteration in which it has dequeued a path
PastGet(t) == wpc[t] \in {"discard", "call", "auth", "xfer", "record",
                          "link", "link_in", "link_send", "remove",
                          "putback", "addback", "backoff"}

\* thread t is inside upload_image, whose calls to the remote services can
\* take any time
Uploading(t) == wpc[t] \in {"call", "auth", "xfer", "record", "link",
                            "link_in", "link_send"}

\* ---------------------------------------------------------------- producers
Accepting == phase \in {"ready", "serving"}

\* capture_image, line 66: camera.capture_and_save_image(QUEUE_DIRECTORY)
\* writes whiteboard_<now>.jpg into the queue directory and returns its path
CaptureSave ==
    /\ Accepting
    /\ ppc = "idle"
    /\ ncalls < MaxCalls
    /\ ncalls' = ncalls + 1
    /\ spool' = spool \cup {StampedName(now)}
    /\ ppc' = "captured"
    /\ parg' = StampedName(now)
    /\ UNCHANGED <<now, uploads, phase, qvars, running, authenticated, drive,
                   auth_ret, upload_thread, wvars, pout, pret, hist, svars,
                   mvars>>

\* mutant: "already queued" is reported as an error
DuplicateResultNone(filepath) == None

\* the value add_image_by_path returns when the path is already in queue_paths
DuplicateResult(filepath) == filepath

\* the value add_image_by_path returns after inserting the path
InsertedResult(filepath) == filepath

\* add_image_by_path(filepath), up to the membership test
ByPathTest(filepath) ==
    /\ parg' = filepath
    /\ IF filepath \in queue_paths
       THEN /\ ppc' = "bp_ret"
            /\ pout' = "duplicate"
            /\ pret' = DuplicateResult(filepath)
       ELSE /\ ppc' = "bp_put"
            /\ UNCHANGED <<pout, pret>>
    /\ UNCHANGED <<env, phase, qvars, running, authenticated, drive, auth_ret,
                   upload_thread, wvars, hist, svars, mvars>>

\* capture_image, line 72: add_image_by_path(filepath) for the file just saved
CaptureEnqueue ==
    /\ ppc = "captured"
    /\ ByPathTest(parg)
    /\ UNCHANGED ncalls

\* any other add_image_by_path(filepath) call, for an image file of the spool
\* (the entry point is called at least once per captured file)
Resubmit(filepath) ==
    /\ Accepting
    /\ ppc = "idle"
    /\ ncalls < MaxCalls
    /\ ncalls' = ncalls + 1
    /\ filepath \in spool
    /\ IsImageName(filepath)
    /\ ByPathTest(filepath)

\* mutant: a failed write goes on to the put
AfterWriteAlwaysPut(written) == "ai_put"

\* where add_image goes after the file write: on to the put, or to the
\* except clause that returns None
AfterWrite(written) == IF written THEN "ai_put" ELSE "ai_ret"

\* add_image(image_data), up to the end of the file write
AddImageCall ==
    /\ Accepting
    /\ ppc = "idle"
    /\ ncalls < MaxCalls
    /\ ncalls' = ncalls + 1
    /\ parg' = StampedName(now)
    /\ \E written \in BOOLEAN :
          IF written
          THEN /\ spool' = spool \cup {StampedName(now)}
               /\ ppc' = AfterWrite(TRUE)
               /\ UNCHANGED <<pout, pret>>
          ELSE \* open() or write() raised: the file may have been created
               /\ spool' \in {spool, spool \cup {StampedName(now)}}
               /\ ppc' = AfterWrite(FALSE)
               /\ pout' = "error"
               /\ pret' = None
    /\ UNCHANGED <<now, uploads, phase, qvars, running, authenticated, drive,
                   auth_ret, upload_thread, wvars, hist, svars, mvars>>

\* mutant: the producer's put is lost
EnqueuedNowhere(q, filepath) == q

\* the queue after image_queue.put(filepath)
Enqueued(q, filepath) == Append(q, filepath)

\* self.image_queue.put(filepath) of either producer call
ProducerPut ==
    /\ ppc \in {"bp_put", "ai_put"}
    /\ image_queue' = Enqueued(image_queue, parg)
    /\ pending' = IF any_fail THEN pending ELSE Append(pending, parg)
    /\ deq_size' = IF \E t \in Threads : PastGet(t) THEN deq_size + 1
                   ELSE deq_size
    /\ ppc' = IF ppc = "bp_put" THEN "bp_add" ELSE "ai_add"
    /\ UNCHANGED <<env, phase, queue_paths, running, authenticated, drive,
                   auth_ret, upload_thread, wvars, parg, pout, pret, ncalls,
                   fifo_ok, any_fail, owed, crashes, svars, mvars, reported,
                   meta, kept>>

\* self.queue_paths.add(filepath) and the return of either producer call
ProducerAdd ==
    /\ ppc \in {"bp_add", "ai_add"}
    /\ queue_paths' = queue_paths \cup {parg}
    /\ pout' = "inserted"
    /\ pret' = InsertedResult(parg)
    /\ ppc' = IF ppc = "bp_add" THEN "bp_ret" ELSE "ai_ret"
    /\ UNCHANGED <<env, phase, image_queue, running, authenticated, drive,
                   auth_ret, upload_thread, wvars, parg, ncalls, hist, svars,
                   mvars>>

\* the caller takes the result (capture_image, lines 73-78)
ProducerReturn ==
    /\ ppc \in {"bp_ret", "ai_ret"}
    /\ ppc' = "idle"
    /\ parg' = NoFile
    /\ pout' = "none"
    /\ pret' = None
    /\ UNCHANGED <<env, phase, qvars, running, authenticated, drive, auth_ret,
                   upload_thread, wvars, ncalls, hist, svars, mvars>>

\* the steps that finish a producer call already begun
ProducerFinish == CaptureEnqueue \/ ProducerPut \/ ProducerAdd
                  \/ ProducerReturn

Producer == CaptureSave \/ AddImageCall \/ ProducerFinish
            \/ \E f \in File : Resubmit(f)

\* ------------------------------------------------------------ start / stop
\* what LoadCredentialsFile can leave in gauth, or that it raised
Loads == {"raise", "none", "expired", "valid"}

\* mutant: a failure to save the credentials leaves authenticated set
authenticateUnsaved(drv, load, flow, save) ==
    IF load # "raise" /\ flow
    THEN [ret |-> save, authenticated |-> TRUE, drive |-> "client"]
    ELSE [ret |-> FALSE, authenticated |-> FALSE, drive |-> drv]

\* authenticate(): load is the outcome of LoadCredentialsFile, flow tells
\* whether the step chosen by the credentials (LocalWebserverAuth, Refresh or
\* Authorize) went through, save whether SaveCredentialsFile did; any
\* exception is caught and gives False.  The result is the returned value and
\* the two attributes after the call (drv is self.drive before it).
authenticate(drv, load, flow, save) ==
    IF load # "raise" /\ flow /\ save
    THEN [ret |-> TRUE, authenticated |-> TRUE, drive |-> "client"]
    ELSE [ret |-> FALSE, authenticated |-> FALSE, drive |-> drv]

\* str() of a returned boolean
Str(b) == IF b THEN "True" ELSE "False"

\* the steps authenticate() chooses from
Steps == {"LocalWebserverAuth", "Refresh", "Authorize"}

\* authenticate(), lines 127-135: the one step taken for what
\* LoadCredentialsFile left in gauth
StepFor(load) ==
    CASE load = "none" -> "LocalWebserverAuth"
      [] load = "expired" -> "Refresh"
      [] OTHER -> "Authorize"

\* one authenticate() call in which LoadCredentialsFile gives load, works
\* tells for each step whether it would go through, and save whether
\* SaveCredentialsFile does; went tells the caller what the call returned
AuthWith(load, works, save, went) ==
    LET r == authenticate(drive, load, works[StepFor(load)], save)
    IN  /\ went = r.ret
        /\ authenticated' = r.authenticated
        /\ drive' = r.drive
        /\ auth_ret' = Str(r.ret)

\* one authenticate() call with some outcome of its steps
AuthCall(went) ==
    \E load \in Loads, works \in [Steps -> BOOLEAN], save \in BOOLEAN :
        AuthWith(load, works, save, went)

\* QueueUploader.start(): the result of authenticate() is not looked at
start ==
    /\ ~running
    /\ upload_thread < MaxThreads
    /\ running' = TRUE
    /\ \E went \in BOOLEAN : AuthCall(went)
    /\ upload_thread' = upload_thread + 1
    /\ wpc' = [wpc EXCEPT ![upload_thread + 1] = "loop"]
    /\ UNCHANGED <<env, qvars, cur, gate, res, pvars, hist, svars, mvars>>

\* mutant: stop() leaves running as it is
AfterStopIgnored(r) == r

\* self.running after the assignment in stop()
AfterStop(r) == FALSE

\* QueueUploader.stop(), up to the assignment of running
stop ==
    /\ running' = AfterStop(running)
    /\ UNCHANGED <<env, qvars, authenticated, drive, auth_ret, upload_thread,
                   wvars, pvars, hist, svars, mvars>>

\* SmartEraserService.start() starts the uploader once
MainStart ==
    /\ phase = "ready"
    /\ phase' = "serving"
    /\ start

\* SmartEraserService.stop() stops it once
MainStop ==
    /\ phase = "serving"
    /\ phase' = "stopping"
    /\ stop

\* QueueUploader.stop(), upload_thread.join(timeout=5) returns: the thread has
\* ended, or five seconds have passed with the thread still inside
\* upload_image (the sleeps of the loop take 0.1 s and the gate check at most
\* 3 s, so that outside upload_image the thread reaches its loop test in time)
JoinReturn ==
    /\ phase = "stopping"
    /\ \A t \in Threads : wpc[t] \in {"none", "exit"} \/ Uploading(t)
    /\ phase' = "stopped"
    /\ UNCHANGED <<env, qvars, running, authenticated, drive, auth_ret,
                   upload_thread, wvars, pvars, hist, svars, mvars>>

\* a later start() on the same uploader, after stop() has returned: the test
\* of running and its assignment; authenticate() is entered
StartAgain ==
    /\ phase = "stopped"
    /\ ~running
    /\ upload_thread < MaxThreads
    /\ running' = TRUE
    /\ phase' = "restarting"
    /\ UNCHANGED <<env, qvars, authenticated, drive, auth_ret, upload_thread,
                   wvars, pvars, hist, svars, mvars>>

\* authenticate() returns into that start(), which creates and starts a new
\* thread without looking at the old one
StartAgainThread ==
    /\ phase = "restarting"
    /\ \E went \in BOOLEAN : AuthCall(went)
    /\ upload_thread' = upload_thread + 1
    /\ wpc' = [wpc EXCEPT ![upload_thread + 1] = "loop"]
    /\ phase' = "serving"
    /\ UNCHANGED <<env, qvars, running, cur, gate, res, pvars, hist, svars,
                   mvars>>

\* ------------------------------------------------------------------ worker
\* mutant: the loop is left after one iteration
LoopTestOnce(r) == "exit"

\* where the loop test leads, r being the value of self.running
LoopTest(r) == IF r THEN "gate" ELSE "exit"

\* while self.running:
Loop(t) ==
    /\ wpc[t] = "loop"
    /\ wpc' = [wpc EXCEPT ![t] = LoopTest(running)]
    /\ cur' = [cur EXCEPT ![t] = NoFile]
    /\ gate' = [gate EXCEPT ![t] = "none"]
    /\ res' = [res EXCEPT ![t] = "none"]
    /\ deq_size' = 0
    /\ meta' = [meta EXCEPT ![t] = "none"]
    /\ UNCHANGED <<env, phase, qvars, running, authenticated, drive, auth_ret,
                   upload_thread, pvars, pending, fifo_ok, any_fail, owed,
                   crashes, svars, mvars, reported, kept>>

\* mutant: the worker dequeues whatever the gate check returned
AfterGateIgnored(up) == "get"

\* where the loop goes after check_internet_connection() returned up
AfterGate(up) == IF up THEN "get" ELSE "sleep"

\* if self.check_internet_connection():
Gate(t) ==
    /\ wpc[t] = "gate"
    /\ \E up \in BOOLEAN :
          /\ gate' = [gate EXCEPT ![t] = IF up THEN "up" ELSE "down"]
          /\ wpc' = [wpc EXCEPT ![t] = AfterGate(up)]
    /\ UNCHANGED <<env, phase, qvars, running, authenticated, drive, auth_ret,
                   upload_thread, cur, res, pvars, hist, svars, mvars>>

\* time.sleep(NETWORK_CHECK_INTERVAL), offline or on queue.Empty
Sleep(t) ==
    /\ wpc[t] = "sleep"
    /\ wpc' = [wpc EXCEPT ![t] = "loop"]
    /\ UNCHANGED <<env, phase, qvars, running, authenticated, drive, auth_ret,
                   upload_thread, cur, gate, res, pvars, hist, svars, mvars>>

\* mutant: the worker takes the newest entry
DequeuedNewest(q) == q[Len(q)]

\* the entry image_queue.get(block=False) takes
Dequeued(q) == Head(q)

\* the queue it leaves
AfterGet(q) == Tail(q)

\* filepath = self.image_queue.get(block=False)
Get(t) ==
    /\ wpc[t] = "get"
    /\ IF image_queue = <<>>
       THEN /\ wpc' = [wpc EXCEPT ![t] = "sleep"]
            /\ UNCHANGED <<image_queue, cur, deq_size>>
       ELSE /\ cur' = [cur EXCEPT ![t] = Dequeued(image_queue)]
            /\ image_queue' = AfterGet(image_queue)
            /\ deq_size' = Len(image_queue)
            /\ wpc' = [wpc EXCEPT ![t] = "discard"]
    /\ UNCHANGED <<env, phase, queue_paths, running, authenticated, drive,
                   auth_ret, upload_thread, gate, res, pvars, pending,
                   fifo_ok, any_fail, owed, crashes, svars, mvars, reported,
                   meta, kept>>

\* self.queue_paths.discard(filepath)
Discard(t) ==
    /\ wpc[t] = "discard"
    /\ queue_paths' = queue_paths \ {cur[t]}
    /\ wpc' = [wpc EXCEPT ![t] = "call"]
    /\ UNCHANGED <<env, phase, image_queue, running, authenticated, drive,
                   auth_ret, upload_thread, cur, gate, res, pvars, hist,
                   svars, mvars>>

\* mutant: the file is deleted whatever upload_image returned
AfterUploadAlwaysRemove(ok) == "remove"

\* process_queue, line 213: where the loop goes with upload_image's result
AfterUpload(ok) == IF ok THEN "remove" ELSE "putback"

\* bookkeeping of an upload_image(filepath) call: the attempt is in order when
\* filepath is the oldest pending path; nothing is tracked after a failure
Attempted(filepath, failed) ==
    /\ UNCHANGED <<owed, crashes, svars, mvars, reported, deq_size, meta,
                   kept>>
    /\ any_fail' = (any_fail \/ failed)
    /\ IF any_fail \/ failed
       THEN pending' = <<>> /\ UNCHANGED fifo_ok
       ELSE /\ fifo_ok' = (fifo_ok /\ pending # <<>> /\ Head(pending) = filepath)
            /\ pending' = IF pending = <<>> THEN <<>> ELSE Tail(pending)

\* mutant: upload_image authenticates again until it succeeds
AfterAuthAgain(went) == IF went THEN "xfer" ELSE "call"

\* upload_image, lines 159-161: on to the upload when authenticated, else
\* return False to process_queue
AfterAuth(went) == IF went THEN "xfer" ELSE AfterUpload(FALSE)

\* upload_image(filepath), line 159: authenticate() when not authenticated
UploadCall(t) ==
    /\ wpc[t] = "call"
    /\ \E went \in BOOLEAN :
          /\ IF authenticated
             THEN went /\ UNCHANGED <<authenticated, drive, auth_ret>>
             ELSE AuthCall(went)
          /\ wpc' = [wpc EXCEPT ![t] = AfterAuth(went)]
          /\ IF went
             THEN /\ Attempted(cur[t], FALSE)
                  /\ UNCHANGED res
             ELSE /\ res' = [res EXCEPT ![t] = "fail"]
                  /\ Attempted(cur[t], TRUE)
    /\ UNCHANGED <<env, phase, qvars, running, upload_thread, cur, gate,
                   pvars>>

\* the same line taken as two steps, for the runs in which another thread can
\* be inside authenticate() too.  First step: authenticated is read as False
\* and authenticate() is entered
AuthEnter(t) ==
    /\ wpc[t] = "call"
    /\ ~authenticated
    /\ wpc' = [wpc EXCEPT ![t] = "auth"]
    /\ UNCHANGED <<env, phase, qvars, running, authenticated, drive, auth_ret,
                   upload_thread, cur, gate, res, pvars, hist, svars, mvars>>

\* second step: authenticate() returns into upload_image
AuthLeave(t) ==
    /\ wpc[t] = "auth"
    /\ \E went \in BOOLEAN :
          /\ AuthCall(went)
          /\ wpc' = [wpc EXCEPT ![t] = AfterAuth(went)]
          /\ IF went
             THEN /\ Attempted(cur[t], FALSE)
                  /\ UNCHANGED res
             ELSE /\ res' = [res EXCEPT ![t] = "fail"]
                  /\ Attempted(cur[t], TRUE)
    /\ UNCHANGED <<env, phase, qvars, running, upload_thread, cur, gate,
                   pvars>>

\* mutant: the metadata steps follow a failed upload too
AfterXferAlwaysRecord(ok) == "record"

\* upload_image, lines 171-181: the metadata steps follow a successful upload,
\* an exception leads to the handler that returns False
AfterXfer(ok) == IF ok THEN "record" ELSE AfterUpload(FALSE)

\* what the upload steps of upload_image can raise: CreateFile without a
\* drive client, SetContentFile on a missing file, and Upload or FetchMetadata
\* with a network error or with an authentication error of the remote store
Raised == {"nodrive", "nofile", "network", "auth"}

\* the error kind is one this state can produce
Raisable(t, kind) ==
    /\ kind = "nodrive" => drive # "client"
    /\ kind = "nofile" => (drive = "client" /\ cur[t] \notin spool)
    /\ kind \in {"network", "auth"} => drive = "client"

\* upload_image, lines 198-200: an exception of whatever kind is logged and
\* gives False; self.authenticated and self.drive are left as they are
UploadRaised(t, kind) ==
    /\ wpc[t] = "xfer"
    /\ Raisable(t, kind)
    /\ res' = [res EXCEPT ![t] = "fail"]
    /\ any_fail' = TRUE
    /\ pending' = <<>>
    /\ wpc' = [wpc EXCEPT ![t] = AfterXfer(FALSE)]
    /\ UNCHANGED <<uploads, fifo_ok, owed, meta, authenticated, drive,
                   auth_ret>>

\* upload_image(filepath), lines 163-179: CreateFile needs the drive client,
\* SetContentFile raises when the file is missing, Upload and FetchMetadata
\* may raise
Xfer(t) ==
    /\ wpc[t] = "xfer"
    /\ \/ /\ cur[t] \in spool /\ drive = "client"
          /\ uploads' = [uploads EXCEPT ![cur[t]] = @ + 1]
          /\ owed' = owed \ {cur[t]}
          /\ meta' = [meta EXCEPT ![t] = "sent"]
          /\ wpc' = [wpc EXCEPT ![t] = AfterXfer(TRUE)]
          /\ UNCHANGED <<res, pending, fifo_ok, any_fail, authenticated,
                         drive, auth_ret>>
       \/ \E kind \in Raised : UploadRaised(t, kind)
    /\ UNCHANGED <<spool, now, phase, qvars, running, upload_thread, cur,
                   gate, pvars, crashes, svars, mvars, reported, deq_size,
                   kept>>

\* mutant: upload_image returns False when the metadata was not registered or
\* not linked
UploadResultStrict(out) == out \in {"inactive", "linked"}

\* upload_image, line 197: return True, whatever the metadata steps did
UploadResult(out) == TRUE

\* upload_image returns after the metadata step that ended with outcome out
Returned(t, out) ==
    /\ meta' = [meta EXCEPT ![t] = out]
    /\ res' = [res EXCEPT ![t] = IF UploadResult(out) THEN "ok" ELSE "fail"]
    /\ wpc' = [wpc EXCEPT ![t] = AfterUpload(UploadResult(out))]

\* mutant: upload_image returns as soon as the record exists, without the
\* session link
AfterRecordNoLink(id) == AfterUpload(UploadResult("noid"))

\* upload_image, lines 185-194: with an id the session link follows, without
\* one upload_image returns
AfterRecord(id) == IF id THEN "link" ELSE AfterUpload(UploadResult("noid"))

\* upload_image, lines 182-194: supabase_handler.add_image_to_db(url) returns
\* the id of the new record, or None / False when it could not insert
\* (main.py always passes a handler)
Record(t) ==
    /\ wpc[t] = "record"
    /\ \E id \in BOOLEAN :
          IF id
          THEN /\ meta' = [meta EXCEPT ![t] = "id"]
               /\ wpc' = [wpc EXCEPT ![t] = AfterRecord(TRUE)]
               /\ UNCHANGED res
          ELSE Returned(t, "noid")
    /\ UNCHANGED <<env, phase, qvars, running, authenticated, drive, auth_ret,
                   upload_thread, cur, gate, pvars, pending, fifo_ok,
                   any_fail, owed, crashes, svars, mvars, reported, deq_size,
                   kept>>

\* upload_image, lines 187-192: no session is active, or
\* session.add_image_to_session(board_state_id) returns True or False
Link(t) ==
    /\ wpc[t] = "link"
    /\ \E out \in {"inactive", "linked", "nolink"} : Returned(t, out)
    /\ UNCHANGED <<env, phase, qvars, running, authenticated, drive, auth_ret,
                   upload_thread, cur, gate, pvars, pending, fifo_ok,
                   any_fail, owed, crashes, svars, mvars, reported, deq_size,
                   kept>>

\* mutant: os.remove leaves the file
DeletedNothing(dir, filepath) == dir

\* the directory after os.remove(filepath) succeeded
Deleted(dir, filepath) == dir \ {filepath}

\* mutant: a path whose file could not be deleted is put back
AfterRemoveRetry(ok) == IF ok THEN "loop" ELSE "putback"

\* process_queue, lines 215-220: the iteration ends, deleted or not
AfterRemove(ok) == "loop"

\* mutant: os.remove is called without the os.path.exists test, and raises on
\* a file that is not there
RemovedUntested(dir, filepath, ok) == ok /\ filepath \in dir

\* process_queue, lines 215-218: the delete step raised nothing, because
\* os.path.exists found no file or because os.remove succeeded (ok)
Removed(dir, filepath, ok) == ok \/ filepath \notin dir

\* if os.path.exists(filepath): os.remove(filepath), which may raise
Remove(t) ==
    /\ wpc[t] = "remove"
    /\ \E ok \in BOOLEAN :
          /\ spool' = IF ok THEN Deleted(spool, cur[t]) ELSE spool
          /\ kept' = IF Removed(spool, cur[t], ok) THEN kept \ {cur[t]}
                     ELSE kept \cup {cur[t]}
          /\ wpc' = [wpc EXCEPT ![t] = AfterRemove(Removed(spool, cur[t], ok))]
    /\ meta' = [meta EXCEPT ![t] = "none"]
    /\ UNCHANGED <<now, uploads, phase, qvars, running, authenticated, drive,
                   auth_ret, upload_thread, cur, gate, res, pvars, pending,
                   fifo_ok, any_fail, owed, crashes, svars, mvars, reported,
                   deq_size>>

\* mutant: a failed path is not put back
RequeuedDropped(q, filepath) == q

\* the queue after the worker returned filepath to it
Requeued(q, filepath) == Append(q, filepath)

\* self.image_queue.put(filepath) after a failed upload
PutBack(t) ==
    /\ wpc[t] = "putback"
    /\ image_queue' = Requeued(image_queue, cur[t])
    /\ wpc' = [wpc EXCEPT ![t] = "addback"]
    /\ UNCHANGED <<env, phase, queue_paths, running, authenticated, drive,
                   auth_ret, upload_thread, cur, gate, res, pvars, hist,
                   svars, mvars>>

\* self.queue_paths.add(filepath) after a failed upload
AddBack(t) ==
    /\ wpc[t] = "addback"
    /\ queue_paths' = queue_paths \cup {cur[t]}
    /\ wpc' = [wpc EXCEPT ![t] = "backoff"]
    /\ UNCHANGED <<env, phase, image_queue, running, authenticated, drive,
                   auth_ret, upload_thread, cur, gate, res, pvars, hist,
                   svars, mvars>>

\* mutant: after the sleep the worker uploads the same path again
AfterBackoffSamePath == "call"

\* where the worker goes after the retry sleep: back to the loop test
AfterBackoff == "loop"

\* time.sleep(UPLOAD_RETRY_INTERVAL)
Backoff(t) ==
    /\ wpc[t] = "backoff"
    /\ wpc' = [wpc EXCEPT ![t] = AfterBackoff]
    /\ UNCHANGED <<env, phase, qvars, running, authenticated, drive, auth_ret,
                   upload_thread, cur, gate, res, pvars, hist, svars, mvars>>

\* one statement of process_queue in thread t
process_queue(t) ==
    \/ Loop(t) \/ Gate(t) \/ Sleep(t) \/ Get(t) \/ Discard(t)
    \/ UploadCall(t) \/ Xfer(t) \/ Record(t) \/ Link(t) \/ Remove(t)
    \/ PutBack(t) \/ AddBack(t) \/ Backoff(t)

Worker == \E t \in Threads : process_queue(t)

\* mutant: a path that is being uploaded is counted too
QueueSizeWithInFlight ==
    Len(image_queue) + Cardinality({t \in Threads : Holding(t)})

\* get_queue_size()
get_queue_size == Len(image_queue)

\* the status report of the service reads the queue size
StatusReport ==
    /\ Accepting
    /\ reported' = get_queue_size
    /\ UNCHANGED <<env, phase, qvars, running, authenticated, drive, auth_ret,
                   upload_thread, wvars, pvars, pending, fifo_ok, any_fail,
                   owed, crashes, svars, mvars, deq_size, meta, kept>>

\* ---------------------------------------------------------------- sessions
\* everything outside the Session object and the Session table
uvars == <<env, phase, qvars, running, authenticated, drive, auth_ret,
          upload_thread, wvars, pvars, hist, mvars>>

\* a command thread enters a Session method
SessionEnter(c, at) ==
    /\ spc' = [spc EXCEPT ![c] = at]
    /\ sret' = [sret EXCEPT ![c] = "none"]
    /\ UNCHANGED <<active, session_id, sessions, sid, uvars>>

\* a Session method returns
SessionReturn(c, value) ==
    /\ spc' = [spc EXCEPT ![c] = "idle"]
    /\ sret' = [sret EXCEPT ![c] = value]

\* Session.start() is called
StartCall(c) ==
    /\ spc[c] = "idle"
    /\ SessionEnter(c, "start_test")

\* Session.end() is called (SmartEraserService.stop does it)
EndCall(c) ==
    /\ spc[c] = "idle"
    /\ SessionEnter(c, "end_test")

\* Session.toggle(), lines 70-73: end() if active, start() otherwise
ToggleCall(c) ==
    /\ spc[c] = "idle"
    /\ SessionEnter(c, IF active THEN "end_test" ELSE "start_test")

\* start(), lines 31-33: where the test of self.active leads
AfterStartTest(a) == IF a THEN "idle" ELSE "create"

\* start(), lines 31-33 (main.py always passes a handler)
StartTest(c) ==
    /\ spc[c] = "start_test"
    /\ IF AfterStartTest(active) = "idle"
       THEN SessionReturn(c, "already")
       ELSE /\ spc' = [spc EXCEPT ![c] = AfterStartTest(active)]
            /\ UNCHANGED sret
    /\ UNCHANGED <<active, session_id, sessions, sid, uvars>>

\* the id of the row a successful insert into the Session table returns
NewId == CHOOSE i \in SessionIds :
            sessions[i] = "none" /\ \A j \in 1..(i - 1) : sessions[j] # "none"

\* start(), lines 39-47: supabase_handler.create_session() inserts a row and
\* returns its id, or returns False (handler not running) or None (exception)
CreateSession(c) ==
    /\ spc[c] = "create"
    /\ \E ok \in BOOLEAN :
          IF ok
          THEN /\ \E i \in SessionIds : sessions[i] = "none"
               /\ sessions' = [sessions EXCEPT ![NewId] = "open"]
               /\ sid' = [sid EXCEPT ![c] = NewId]
               /\ spc' = [spc EXCEPT ![c] = "start_set"]
               /\ UNCHANGED sret
          ELSE /\ SessionReturn(c, "nocreate")
               /\ UNCHANGED <<sessions, sid>>
    /\ UNCHANGED <<active, session_id, uvars>>

\* start(), line 41: self.active = True
StartSet(c) ==
    /\ spc[c] = "start_set"
    /\ active' = TRUE
    /\ spc' = [spc EXCEPT ![c] = "start_id"]
    /\ UNCHANGED <<session_id, sessions, sid, sret, uvars>>

\* start(), lines 42-44: self.session_id = session_id; return True
StartId(c) ==
    /\ spc[c] = "start_id"
    /\ session_id' = sid[c]
    /\ SessionReturn(c, "started")
    /\ UNCHANGED <<active, sessions, sid, uvars>>

\* end(), lines 51-53
EndTest(c) ==
    /\ spc[c] = "end_test"
    /\ IF active
       THEN spc' = [spc EXCEPT ![c] = "end_call"] /\ UNCHANGED sret
       ELSE SessionReturn(c, "noactive")
    /\ UNCHANGED <<active, session_id, sessions, sid, uvars>>

\* the Session table after an update of ended_at on the rows whose id is id
\* (none when id is None)
Ended(tbl, id) ==
    IF id \in SessionIds THEN [tbl EXCEPT ![id] = "ended"] ELSE tbl

\* mutant: end() clears the session although end_session failed
AfterEndSessionAlways(ok) == "end_clear"

\* end(), lines 59-66: where the result of end_session leads
AfterEndSession(ok) == IF ok THEN "end_clear" ELSE "idle"

\* end(), lines 59-66: supabase_handler.end_session(self.session_id) updates
\* the row and returns True, or returns False (not running, or exception)
EndSession(c) ==
    /\ spc[c] = "end_call"
    /\ sid' = [sid EXCEPT ![c] = session_id]
    /\ \E ok \in BOOLEAN :
          /\ sessions' = IF ok THEN Ended(sessions, session_id) ELSE sessions
          /\ IF AfterEndSession(ok) = "idle"
             THEN SessionReturn(c, "noend")
             ELSE /\ spc' = [spc EXCEPT ![c] = AfterEndSession(ok)]
                  /\ UNCHANGED sret
    /\ UNCHANGED <<active, session_id, uvars>>

\* end(), line 61: self.active = False
EndClear(c) ==
    /\ spc[c] = "end_clear"
    /\ active' = FALSE
    /\ spc' = [spc EXCEPT ![c] = "end_id"]
    /\ UNCHANGED <<session_id, sessions, sid, sret, uvars>>

\* mutant: end() leaves session_id as it is
ClearedIdKept(id) == id

\* end(), line 62: self.session_id = None
ClearedId(id) == 0

\* end(), lines 62-63: self.session_id = None; return True
EndId(c) ==
    /\ spc[c] = "end_id"
    /\ session_id' = ClearedId(session_id)
    /\ SessionReturn(c, "ended")
    /\ UNCHANGED <<active, sessions, sid, uvars>>

\* get_session_id(), line 94 (0 = None)
get_session_id == IF active THEN session_id ELSE 0

\* a step inside a Session method that command thread c has entered
SessionStep(c) ==
    \/ StartTest(c) \/ CreateSession(c) \/ StartSet(c) \/ StartId(c)
    \/ EndTest(c) \/ EndSession(c) \/ EndClear(c) \/ EndId(c)

\* command thread c calls a Session method
SessionCall(c) == StartCall(c) \/ EndCall(c) \/ ToggleCall(c)

\* no Session method is being executed
Quiet == \A c \in Commands : spc[c] = "idle"

\* upload_image, line 187: self.session.is_active()
LinkTest(t) ==
    /\ wpc[t] = "link"
    /\ IF active
       THEN /\ wpc' = [wpc EXCEPT ![t] = "link_in"]
            /\ UNCHANGED <<meta, res>>
       ELSE Returned(t, "inactive")
    /\ UNCHANGED <<env, phase, qvars, running, authenticated, drive, auth_ret,
                   upload_thread, cur, gate, pvars, pending, fifo_ok,
                   any_fail, owed, crashes, reported, deq_size, kept, svars,
                   mvars>>

\* Session.add_image_to_session, lines 77-79, called at line 189 of
\* upload_image: with no active session it returns False
LinkIn(t) ==
    /\ wpc[t] = "link_in"
    /\ IF active
       THEN /\ wpc' = [wpc EXCEPT ![t] = "link_send"]
            /\ UNCHANGED <<meta, res>>
       ELSE Returned(t, "nolink")
    /\ UNCHANGED <<env, phase, qvars, running, authenticated, drive, auth_ret,
                   upload_thread, cur, gate, pvars, pending, fifo_ok,
                   any_fail, owed, crashes, reported, deq_size, kept, svars,
                   mvars>>

\* Session.add_image_to_session, line 86: the handler's add_image_to_session
\* is invoked with self.session_id as it is now, and returns True or False
LinkSend(t) ==
    /\ wpc[t] = "link_send"
    /\ \E ok \in BOOLEAN : Returned(t, IF ok THEN "linked" ELSE "nolink")
    /\ UNCHANGED <<env, phase, qvars, running, authenticated, drive, auth_ret,
                   upload_thread, cur, gate, pvars, pending, fifo_ok,
                   any_fail, owed, crashes, reported, deq_size, kept, active,
                   session_id, sessions, spc, sid, sret, mvars>>

\* one statement of process_queue in thread t, with the session link of
\* upload_image taken statement by statement
process_queue_session(t) ==
    \/ wpc[t] # "link" /\ process_queue(t)
    \/ LinkTest(t)
    \/ LinkIn(t)
    \/ LinkSend(t)

\* ------------------------------------------------------------------ motors
\* everything outside the MotorControl object
nvars == <<env, phase, qvars, running, authenticated, drive, auth_ret,
          upload_thread, wvars, pvars, hist, svars>>

\* thread k runs _erase_process
Alive(k) == mpc[k] \notin {"none", "done"}

\* self.erase_thread and self.erase_thread.is_alive()
ThreadAlive == erase_thread \in Erases /\ Alive(erase_thread)

\* erase_whiteboard(), lines 186-195: refuses when erasing is set, otherwise
\* sets it and starts a new _erase_process thread
erase_whiteboard ==
    /\ erasing \/ erase_thread < MaxErases
    /\ IF erasing
       THEN /\ mret' = "already"
            /\ UNCHANGED <<erasing, erase_thread, mpc>>
       ELSE /\ erasing' = TRUE
            /\ erase_thread' = erase_thread + 1
            /\ mpc' = [mpc EXCEPT ![erase_thread + 1] = "begin"]
            /\ mret' = "started"
    /\ UNCHANGED <<motor_paused, reset_requested, rpc, mcall, nvars>>

\* a caller calls erase_whiteboard()
EraseCall ==
    /\ mcall = "none"
    /\ erase_whiteboard

\* handle_start_pause(), lines 124-141: refused during a reset; starts the
\* erasing when none is on, toggles motor_paused otherwise
StartPauseCall ==
    /\ mcall = "none"
    /\ IF reset_requested
       THEN /\ mret' = "wait"
            /\ UNCHANGED <<erasing, motor_paused, reset_requested,
                           erase_thread, mpc, rpc, mcall, nvars>>
       ELSE IF ~erasing
            THEN erase_whiteboard
            ELSE /\ motor_paused' = ~motor_paused
                 /\ mret' = IF motor_paused THEN "resumed" ELSE "paused"
                 /\ UNCHANGED <<erasing, reset_requested, erase_thread, mpc,
                                rpc, mcall, nvars>>

\* stop_erasing(), lines 234-238: clears erasing, then joins the thread if it
\* is alive
StopCall ==
    /\ mcall = "none"
    /\ IF ~erasing
       THEN /\ mret' = "norun"
            /\ UNCHANGED <<erasing, mcall>>
       ELSE /\ erasing' = FALSE
            /\ IF ThreadAlive
               THEN mcall' = "stop_join" /\ mret' = "none"
               ELSE mret' = "stopped" /\ UNCHANGED mcall
    /\ UNCHANGED <<motor_paused, reset_requested, erase_thread, mpc, rpc,
                   nvars>>

\* thread k stands in the pause loop of move_motor_steps (lines 102-104, on
\* the device), which it leaves only when motor_paused or reset_requested
\* change
Parked(k) ==
    /\ mpc[k] \in {"forward", "backward"}
    /\ motor_paused /\ ~reset_requested

\* stop_erasing(), lines 239-242: join(timeout=5) returns because the thread
\* has ended, or because five seconds have passed with the thread parked in
\* the pause loop; "Erasing process stopped" is returned either way
StopJoinReturn ==
    /\ mcall = "stop_join"
    /\ ~ThreadAlive \/ Parked(erase_thread)
    /\ mcall' = "none"
    /\ mret' = "stopped"
    /\ UNCHANGED <<erasing, motor_paused, reset_requested, erase_thread, mpc,
                   rpc, nvars>>

\* reset_motors(), lines 147-154, called while no reset is in progress
ResetCall ==
    /\ mcall = "none"
    /\ rpc = "none"
    /\ motor_paused' = FALSE
    /\ erasing' = FALSE
    /\ reset_requested' = TRUE
    /\ mcall' = "reset_join"
    /\ mret' = "none"
    /\ UNCHANGED <<erase_thread, mpc, rpc, nvars>>

\* reset_motors(), lines 153-161: the erase thread, which sees reset_requested
\* at its next step, has ended (or there was none); the _reset_process thread
\* is started
ResetJoinReturn ==
    /\ mcall = "reset_join"
    /\ ~ThreadAlive
    /\ rpc' = "begin"
    /\ mcall' = "none"
    /\ mret' = "reset"
    /\ UNCHANGED <<erasing, motor_paused, reset_requested, erase_thread, mpc,
                   nvars>>

\* _reset_process, lines 166-182: reset_requested is cleared before the move
\* back when the position is off the origin, and in the finally clause
\* otherwise (current_position is not tracked: either case)
ResetBegin ==
    /\ rpc = "begin"
    /\ reset_requested' = FALSE
    /\ rpc' \in {"moving", "none"}
    /\ UNCHANGED <<erasing, motor_paused, erase_thread, mpc, mcall, mret,
                   nvars>>

\* _reset_process, lines 173-182: the move back is over
ResetDone ==
    /\ rpc = "moving"
    /\ reset_requested' = FALSE
    /\ rpc' = "none"
    /\ UNCHANGED <<erasing, motor_paused, erase_thread, mpc, mcall, mret,
                   nvars>>

\* _erase_process, lines 201-202
EraseBegin(k) ==
    /\ mpc[k] = "begin"
    /\ motor_paused' = FALSE
    /\ mpc' = [mpc EXCEPT ![k] = "forward"]
    /\ UNCHANGED <<erasing, reset_requested, erase_thread, rpc, mcall, mret,
                   nvars>>

\* move_motor_steps, lines 100-107: a pass ends after its last step, which the
\* pause loop holds back, or at once when reset_requested is set; erasing is
\* not looked at
PassOver(paused, reset) == ~paused \/ reset

\* _erase_process, lines 204-217: the forward pass is over; the backward pass
\* follows unless a reset was requested
Forward(k) ==
    /\ mpc[k] = "forward"
    /\ PassOver(motor_paused, reset_requested)
    /\ mpc' = [mpc EXCEPT ![k] = IF reset_requested THEN "finish"
                                 ELSE "backward"]
    /\ UNCHANGED <<erasing, motor_paused, reset_requested, erase_thread, rpc,
                   mcall, mret, nvars>>

\* _erase_process, lines 217-221: the backward pass is over
Backward(k) ==
    /\ mpc[k] = "backward"
    /\ PassOver(motor_paused, reset_requested)
    /\ mpc' = [mpc EXCEPT ![k] = "finish"]
    /\ UNCHANGED <<erasing, motor_paused, reset_requested, erase_thread, rpc,
                   mcall, mret, nvars>>

\* _erase_process, lines 228-230: finally: self.erasing = False
EraseFinish(k) ==
    /\ mpc[k] = "finish"
    /\ erasing' = FALSE
    /\ mpc' = [mpc EXCEPT ![k] = "done"]
    /\ UNCHANGED <<motor_paused, reset_requested, erase_thread, rpc, mcall,
                   mret, nvars>>

\* one step of the _erase_process thread k
erase_process(k) ==
    EraseBegin(k) \/ Forward(k) \/ Backward(k) \/ EraseFinish(k)

\* ------------------------------------------------------------------ crash
\* the process dies (power loss, kill): memory is lost, the directory and the
\* remote store stay
Crash ==
    /\ phase # "off"
    /\ crashes < MaxCrashes
    /\ crashes' = crashes + 1
    /\ phase' = "off"
    /\ image_queue' = <<>>
    /\ queue_paths' = {}
    /\ running' = FALSE
    /\ authenticated' = FALSE
    /\ drive' = "none"
    /\ auth_ret' = "none"
    /\ upload_thread' = 0
    /\ wpc' = [t \in Threads |-> "none"]
    /\ cur' = [t \in Threads |-> NoFile]
    /\ gate' = [t \in Threads |-> "none"]
    /\ res' = [t \in Threads |-> "none"]
    /\ ppc' = "idle"
    /\ parg' = NoFile
    /\ pout' = "none"
    /\ pret' = None
    /\ pending' = <<>>
    /\ fifo_ok' = TRUE
    /\ any_fail' = FALSE
    /\ owed' = {}
    /\ deq_size' = 0
    /\ meta' = [t \in Threads |-> "none"]
    /\ active' = FALSE
    /\ session_id' = 0
    /\ spc' = [c \in Commands |-> "idle"]
    /\ sid' = [c \in Commands |-> 0]
    /\ sret' = [c \in Commands |-> "none"]
    /\ UNCHANGED <<env, ncalls, kept, reported, sessions, mvars>>

\* ---------------------------------------------------------- specifications
\* one process lifetime
Next == Tick \/ Construct \/ MainStart \/ MainStop \/ JoinReturn \/ Producer
        \/ Worker

Spec == Init /\ [][Next]_vars

\* a service that starts over an empty directory and is not stopped; captures
\* and add_image calls produce, every thread that can take a step gets to run
InitEmpty == spool = {} /\ Fresh

NextDelivery == Tick \/ Construct \/ MainStart \/ CaptureSave \/ AddImageCall
                \/ ProducerFinish \/ Worker

SpecDelivery == /\ InitEmpty /\ [][NextDelivery]_vars
                /\ WF_vars(Worker) /\ WF_vars(ProducerFinish)

\* add_image calls, the worker and status reports, over a directory that
\* holds nothing but images
InitStatus == spool \in {d \in Leftovers : d = Artifacts(d)} /\ Fresh

NextStatus == Tick \/ Construct \/ MainStart \/ AddImageCall \/ ProducerPut
              \/ ProducerAdd \/ ProducerReturn \/ Worker \/ StatusReport

SpecStatus == InitStatus /\ [][NextStatus]_vars

\* construction over any small directory, and restarts
InitBoot ==
    spool \in {d \in SUBSET File : Cardinality(d) <= MaxFiles} /\ Fresh

NextBoot == Tick \/ Construct \/ Crash

SpecBoot == InitBoot /\ [][NextBoot]_vars

\* one statement of process_queue in thread t, with authenticate() taking time
process_queue_auth(t) ==
    \/ (wpc[t] # "call" \/ authenticated) /\ process_queue(t)
    \/ AuthEnter(t)
    \/ AuthLeave(t)

\* start() and stop() called again and again on one uploader, no producer
NextRestart == Construct \/ MainStart \/ MainStop \/ JoinReturn \/ StartAgain
               \/ StartAgainThread \/ \E t \in Threads : process_queue_auth(t)

\* the directory holds one image file when the process starts
InitRestart ==
    spool \in {d \in Leftovers : Cardinality(Artifacts(d)) = 1} /\ Fresh

SpecRestart == InitRestart /\ [][NextRestart]_vars

\* a worker step while the connection check, authenticate() and the upload
\* succeed
Online ==
    Worker /\ \A t \in Threads : gate'[t] # "down" /\ res'[t] # "fail"

\* start() and stop() called again and again while the device is online, with
\* add_image_by_path called for files of the directory
NextResubmit == Construct \/ MainStart \/ MainStop \/ JoinReturn
                \/ StartAgain \/ StartAgainThread \/ Online \/ ProducerPut
                \/ ProducerAdd \/ ProducerReturn
                \/ \E f \in File : Resubmit(f)

SpecResubmit == InitRestart /\ [][NextResubmit]_vars

\* session commands that arrive one after the other, next to a worker that
\* delivers the image of the directory
\* a worker step of that kind while the connection check, authenticate() and
\* the upload succeed
OnlineSession ==
    /\ \E t \in Threads : process_queue_session(t)
    /\ \A t \in Threads : gate'[t] # "down" /\ res'[t] # "fail"

NextSession == Construct \/ MainStart \/ OnlineSession
               \/ (\E c \in Commands : Quiet /\ SessionCall(c))
               \/ (\E c \in Commands : SessionStep(c))

SpecSession == InitRestart /\ [][NextSession]_vars

\* session commands from several threads at once (handle_command is called
\* from the MQTT, button, keyboard and scheduler threads)
NextCommands == \E c \in Commands : SessionCall(c) \/ SessionStep(c)

SpecCommands == InitEmpty /\ [][NextCommands]_vars

\* the motor commands, called one after the other, and the threads they start
NextMotor == EraseCall \/ StartPauseCall \/ StopCall \/ StopJoinReturn
             \/ ResetCall \/ ResetJoinReturn \/ ResetBegin \/ ResetDone
             \/ \E k \in Erases : erase_process(k)

SpecMotor == InitEmpty /\ [][NextMotor]_vars

\* restarts with no producer: what is in the directory is all there is
NextRecovery == Tick \/ Construct \/ MainStart \/ MainStop \/ JoinReturn
                \/ Worker \/ Crash

SpecRecovery == Init /\ [][NextRecovery]_vars /\ WF_vars(Worker)

TypeOK ==
    /\ spool \subseteq File
    /\ now \in Stamps
    /\ phase \in {"off", "ready", "serving", "stopping", "stopped",
                 "restarting"}
    /\ queue_paths \subseteq File
    /\ \A i \in 1..Len(image_queue) : image_queue[i] \in File
    /\ ncalls \in 0..MaxCalls
    /\ owed \subseteq File
    /\ kept \subseteq File
    /\ reported \in -1..(MaxCalls + 2)
    /\ drive \in {"none", "client"}
    /\ auth_ret \in {"none", "True", "False"}
    /\ active \in BOOLEAN
    /\ session_id \in 0..MaxSessions
    /\ sessions \in [SessionIds -> {"none", "open", "ended"}]
    /\ spc \in [Commands -> {"idle", "start_test", "create", "start_set",
                             "start_id", "end_test", "end_call", "end_clear",
                             "end_id"}]
    /\ sid \in [Commands -> 0..MaxSessions]
    /\ sret \in [Commands -> {"none", "already", "nocreate", "started",
                              "noactive", "noend", "ended"}]
    /\ erasing \in BOOLEAN
    /\ motor_paused \in BOOLEAN
    /\ reset_requested \in BOOLEAN
    /\ erase_thread \in 0..MaxErases
    /\ mpc \in [Erases -> {"none", "begin", "forward", "backward", "finish",
                           "done"}]
    /\ rpc \in {"none", "begin", "moving"}
    /\ mcall \in {"none", "stop_join", "reset_join"}
    /\ mret \in {"none", "already", "started", "wait", "paused", "resumed",
                  "norun", "stopped", "reset"}

\* ------------------------------------------------------------------ claims
InFlight == {cur[t] : t \in {u \in Threads : Holding(u)}}
Delivered == {f \in File : uploads[f] >= 1}

\* C1: no artifact is lost.  Every path that is queued or in flight and has
\* never been uploaded successfully still has its file in the spool, and a
\* file leaves the spool only in the delete step of a worker iteration whose
\* upload_image call returned True for that very path.
C1_NoArtifactLost ==
    /\ [](\A f \in Range(image_queue) \cup InFlight :
             uploads[f] = 0 => f \in spool)
    /\ [][\A f \in spool \ spool' :
             \E t \in Threads :
                 wpc[t] = "remove" /\ cur[t] = f /\ res[t] = "ok"]_vars

\* a failed upload has put an undelivered path back, and its file is there
C1_Witness ==
    \E t \in Threads :
        /\ wpc[t] = "backoff" /\ res[t] = "fail"
        /\ uploads[cur[t]] = 0
        /\ cur[t] \in Range(image_queue) /\ cur[t] \in spool

\* C3: within one process lifetime no path is uploaded to the remote store
\* successfully more than once.
C3_ExactlyOnce == \A f \in File : uploads[f] <= 1

\* C4: an add_image_by_path(p) call made while p is queued is a no-op (it
\* returns at once and leaves image_queue and queue_paths as they were) and
\* image_queue holds exactly one entry for p.
C4_DedupInvariant ==
    [][\A f \in File :
          (((CaptureEnqueue /\ parg = f) \/ Resubmit(f))
             /\ f \in Range(image_queue))
          => /\ Count(f, image_queue') = 1
             /\ ppc' = "bp_ret" /\ pout' = "duplicate"
             /\ UNCHANGED <<image_queue, queue_paths>>]_vars

C6_RecoveryLoadsAll ==
    (phase = "ready" /\ ncalls = 0) =>
        /\ Len(image_queue) = Cardinality(Artifacts(spool))
        /\ Range(image_queue) = Artifacts(spool)
        /\ \A i, j \in 1..Len(image_queue) :
              i < j => NameLess(image_queue[i], image_queue[j])
        /\ queue_paths = Artifacts(spool)

\* constructed over three image files and one other file
C6_Witness ==
    /\ phase = "ready" /\ ncalls = 0
    /\ Len(image_queue) = 3
    /\ Cardinality(spool) = 4

\* from some point on the worker runs, every gate check returns true and every
\* upload_image call returns True (so authentication succeeds too)
Good ==
    /\ phase = "serving" /\ running
    /\ \A t \in Threads : gate[t] # "down" /\ res[t] # "fail"

\* a producer call has just returned after inserting f
Accepted(f) == ppc \in {"bp_ret", "ai_ret"} /\ pout = "inserted" /\ parg = f

\* C2 as claimed: if from some point on the worker runs and every gate check,
\* authentication and upload succeeds, then every path a producer call
\* inserted and every queued path that was never uploaded is eventually
\* uploaded, a non-empty queue eventually has size 0, and a spool that holds
\* artifact files eventually holds none.
C2_EventualDelivery ==
    <>[]Good =>
        /\ \A f \in Artifacts(File) :
              /\ Accepted(f) ~> (uploads[f] >= 1)
              /\ (f \in Range(image_queue) /\ uploads[f] = 0)
                     ~> (uploads[f] >= 1)
        /\ (get_queue_size > 0) ~> (get_queue_size = 0)
        /\ (Artifacts(spool) # {}) ~> (Artifacts(spool) = {})

\* C2 as amended: under the same conditions every path a producer call
\* inserted and every queued path that was never uploaded is eventually
\* uploaded, and a non-empty queue eventually has size 0; the spool need not
\* become empty.
C2_EventualUpload ==
    <>[]Good =>
        /\ \A f \in Artifacts(File) :
              /\ Accepted(f) ~> (uploads[f] >= 1)
              /\ (f \in Range(image_queue) /\ uploads[f] = 0)
                     ~> (uploads[f] >= 1)
        /\ (get_queue_size > 0) ~> (get_queue_size = 0)

\* two paths are delivered after an upload had failed, and the queue is empty
C2_Witness ==
    /\ Good /\ get_queue_size = 0 /\ InFlight = {}
    /\ Cardinality(Delivered) >= 2 /\ any_fail

\* the service came back after a crash and files of the spool are undelivered
Recovering == phase = "ready" /\ crashes >= 1 /\ owed # {}

\* C7: the construction that follows a crash enqueues every artifact file
\* that is in the spool, and with no producer call at all every such file is
\* uploaded once the worker runs and gate checks and uploads succeed.
C7_CrashRecovery ==
    /\ [](phase = "ready" => Artifacts(spool) \subseteq Range(image_queue))
    /\ <>[]Good => (Recovering ~> (phase = "serving" /\ owed = {}))

\* a file uploaded before the crash and not yet deleted is uploaded again
\* after the restart
C7_Witness ==
    /\ crashes >= 1 /\ ncalls = 0 /\ phase = "serving" /\ owed = {}
    /\ \E f \in File : uploads[f] >= 2

\* C8: as long as no upload_image call has failed, the calls are made in the
\* order in which the paths were enqueued.
C8_Fifo == ~any_fail => fifo_ok

\* three distinct paths were attempted and delivered, none failed
C8_Witness == ~any_fail /\ fifo_ok /\ Cardinality(Delivered) >= 3

\* C9: when upload_image(a) has returned False the worker has put a back into
\* image_queue and queue_paths by the time it sleeps, before it can dequeue
\* again; the queue is then as long as before the failed dequeue (plus what
\* producers put meanwhile), and the steps that handle the failure remove and
\* reorder nothing.
C9_RetryOnFailure ==
    /\ [](\A t \in Threads :
             wpc[t] = "backoff" =>
                 /\ res[t] = "fail"
                 /\ cur[t] \in Range(image_queue)
                 /\ cur[t] \in queue_paths
                 /\ Len(image_queue) = deq_size)
    /\ [][\A t \in Threads :
             (PutBack(t) \/ AddBack(t) \/ Backoff(t))
             => /\ IsPrefix(image_queue, image_queue')
                /\ queue_paths \subseteq queue_paths']_vars

\* a failed path is back behind another queued path
C9_Witness ==
    \E t \in Threads :
        /\ wpc[t] = "backoff"
        /\ Len(image_queue) >= 2
        /\ image_queue[Len(image_queue)] = cur[t]
        /\ image_queue[1] # cur[t]

\* C10: a worker position past the dequeue is reached only in an iteration
\* whose gate check returned true, and in an iteration whose gate check
\* returned false the worker changes neither image_queue nor queue_paths and
\* uploads nothing.
C10_GateObedience ==
    /\ [](\A t \in Threads :
             PastGet(t) => gate[t] = "up")
    /\ [][\A t \in Threads :
             ((gate[t] = "down" \/ gate'[t] = "down") /\ process_queue(t))
             => UNCHANGED <<image_queue, queue_paths, uploads, cur>>]_vars

\* offline with two paths queued: the worker sleeps
C10_Witness ==
    \E t \in Threads :
        wpc[t] = "sleep" /\ gate[t] = "down" /\ Len(image_queue) >= 2

C12_DeleteFailureNonFatal ==
    /\ [][\A t \in Threads :
             (Remove(t) /\ cur[t] \in kept')
             => /\ res[t] = "ok" /\ wpc'[t] = "loop"
                /\ cur[t] \in spool'
                /\ UNCHANGED <<image_queue, queue_paths, uploads>>]_vars
    /\ [](phase = "ready" => kept \subseteq Range(image_queue))
    /\ <>[]Good =>
          \A f \in Artifacts(File) : \A n \in 1..(MaxCrashes + 1) :
              (phase = "ready" /\ f \in kept /\ uploads[f] = n)
                 ~> (uploads[f] > n)

\* after a restart a file whose delete had failed has been uploaded again
C12_Witness ==
    \E t \in Threads :
        /\ wpc[t] = "record" /\ cur[t] \in kept
        /\ uploads[cur[t]] >= 2 /\ crashes >= 1

\* C13: add_image_to_db is called for a path only in an iteration whose upload
\* of that path has just succeeded; no metadata step is taken in an iteration
\* whose upload_image call failed, and none outside upload_image.
C13_MetadataAfterUpload ==
    /\ [][\A t \in Threads :
             Record(t) => /\ meta[t] = "sent" /\ res[t] = "none"
                          /\ uploads[cur[t]] >= 1]_vars
    /\ [][\A t \in Threads :
             meta'[t] \notin {meta[t], "none"}
             => Xfer(t) \/ Record(t) \/ Link(t)]_vars
    /\ [](\A t \in Threads :
             /\ meta[t] # "none" => (cur[t] \in File /\ uploads[cur[t]] >= 1)
             /\ res[t] = "fail" => meta[t] = "none")

\* the record of a path uploaded for the first time has just been created
C13_Witness ==
    \E t \in Threads :
        wpc[t] = "link" /\ meta[t] = "id" /\ uploads[cur[t]] = 1

\* C14: when add_image_to_db returns no id, or add_image_to_session returns
\* False, upload_image still returns True: the upload stays counted, nothing
\* is put back, and the delete step that follows removes the file unless the
\* delete itself fails.
C14_MetadataFailureKeepsDelivery ==
    /\ [][\A t \in Threads :
             ((Record(t) \/ Link(t)) /\ meta'[t] \in {"noid", "nolink"})
             => /\ res'[t] = "ok" /\ wpc'[t] = "remove"
                /\ UNCHANGED <<image_queue, queue_paths, uploads>>]_vars
    /\ [][\A t \in Threads :
             (Remove(t) /\ meta[t] \in {"noid", "nolink"})
             => /\ cur[t] \notin kept' => cur[t] \notin spool'
                /\ wpc'[t] = "loop"
                /\ UNCHANGED <<image_queue, queue_paths, uploads>>]_vars
    /\ [](\A t \in Threads :
             meta[t] \in {"noid", "nolink"}
             => res[t] = "ok" /\ wpc[t] = "remove")

\* the session link failed; upload_image returned True for the path, which is
\* delivered, not queued and about to be deleted
C14_Witness ==
    \E t \in Threads :
        /\ wpc[t] = "remove" /\ meta[t] = "nolink" /\ res[t] = "ok"
        /\ uploads[cur[t]] = 1 /\ cur[t] \notin Range(image_queue)

\* paths dequeued by a worker whose upload_image call has not begun
Taken == Cardinality({t \in Threads : wpc[t] \in {"discard", "call"}})

C16_AuthenticateNeverRaises ==
    /\ [](/\ auth_ret = "False" => ~authenticated
          /\ auth_ret = "True" => (authenticated /\ drive = "client")
          /\ auth_ret = "none" => (~authenticated /\ drive = "none"))
    /\ [][MainStart => \E t \in Threads : wpc'[t] = "loop"]_vars
    /\ [][\A t \in Threads :
             UploadCall(t)
             => /\ wpc'[t] \in {"xfer", "putback"}
                /\ wpc'[t] = "xfer" <=> authenticated'
                /\ auth_ret' # auth_ret => ~authenticated]_vars

\* authentication failed in start() and again in upload_image: the path goes
\* back to the queue
C16_Witness ==
    \E t \in Threads :
        /\ wpc[t] = "putback" /\ res[t] = "fail" /\ meta[t] = "none"
        /\ auth_ret = "False" /\ ~authenticated /\ drive = "none"

\* C17: whatever the gate check, authentication, upload, metadata steps and
\* delete did, the worker comes back to its loop test (unless the process
\* dies); it leaves the loop only at the loop test and only when running is
\* False.
C17_NoErrorStopsWorker ==
    /\ [](\A t \in Threads : wpc[t] = "exit" => ~running)
    /\ [][\A t \in Threads :
             (wpc'[t] = "exit" /\ wpc[t] # "exit")
             => (Loop(t) /\ ~running)]_vars
    /\ \A t \in Threads :
          (wpc[t] \notin {"none", "exit", "loop"})
             ~> (wpc[t] \in {"loop", "none"})

\* the worker has begun another iteration after a failed upload and a failed
\* delete
C17_Witness ==
    \E t \in Threads :
        wpc[t] = "gate" /\ running /\ any_fail /\ kept # {}

\* after shutdown every path a worker has dequeued is delivered or still has
\* its file in the spool
NothingDropped ==
    \A t \in Threads : PastGet(t) => (uploads[cur[t]] >= 1 \/ cur[t] \in spool)

\* C18 as claimed: once stop() has returned no worker is inside upload_image,
\* and every path that was dequeued is delivered or has its file in the spool.
C18_ShutdownBoundary ==
    phase = "stopped" =>
        /\ \A t \in Threads : ~Uploading(t)
        /\ NothingDropped

\* C18 as amended: once stop() has returned running is False, so that a worker
\* that is still inside upload_image (the join may have timed out) leaves the
\* loop at its next loop test and begins no new iteration; every path that
\* was dequeued is delivered or has its file in the spool.
C18_ShutdownBounded ==
    /\ [](phase = "stopped" => (~running /\ NothingDropped))
    /\ [][phase = "stopped" =>
             \A t \in Threads : ~(wpc[t] = "loop" /\ wpc'[t] = "gate")]_vars

\* stop() has returned while the worker is in the middle of an upload
C18_Witness ==
    \E t \in Threads :
        phase = "stopped" /\ wpc[t] = "xfer" /\ ~running /\ cur[t] \in spool


\* C19: a write failure in add_image is fatal to that call only: the call
\* returns None without touching image_queue or queue_paths, it comes back to
\* the caller, and nothing of it is left in the uploader's state.
C19_WriteFailureLocal ==
    /\ [](pout = "error" => (ppc = "ai_ret" /\ pret = None))
    /\ [][(pout' = "error" /\ pout # "error")
             => UNCHANGED <<image_queue, queue_paths>>]_vars
    /\ [][pout = "error"
             => (UNCHANGED <<ppc, pout, pret, parg>>
                 \/ (ppc' = "idle" /\ UNCHANGED <<image_queue, queue_paths>>))]_vars
    /\ (pout = "error") ~> (ppc = "idle")

\* an add_image call has inserted its path after an earlier call failed and
\* left its file in the directory, unqueued
C19_Witness ==
    /\ ppc = "ai_ret" /\ pout = "inserted" /\ parg = F(1, "jpg")
    /\ parg \in Range(image_queue) /\ parg \in queue_paths
    /\ F(0, "jpg") \in spool
    /\ F(0, "jpg") \notin queue_paths
    /\ F(0, "jpg") \notin Range(image_queue)
    /\ uploads[F(0, "jpg")] = 0
    /\ \A t \in Threads : cur[t] # F(0, "jpg")


\* C20: under every interleaving of producers and the worker, image_queue
\* holds each distinct path at most once.
C20_NoDuplicateEntries ==
    \A f \in File : Count(f, image_queue) <= 1


\* C21: in every state a producer can observe (no producer call is in
\* progress, so the lock is free), queue_paths is the set of the paths held in
\* image_queue: no path is in one and not in the other.
C21_DedupAtomic ==
    ppc = "idle" => queue_paths = Range(image_queue)


\* C22: the step after the dequeue takes the path out of queue_paths before
\* upload_image is entered, and an add_image_by_path(p) call made while p is
\* being uploaded (and has not been enqueued again since) is accepted: it goes
\* on to insert p instead of returning "already queued".
C22_AcceptedInFlight ==
    /\ [][\A t \in Threads :
             (wpc[t] = "discard" /\ wpc'[t] # "discard" /\ wpc'[t] # "none")
             => (wpc'[t] = "call" /\ cur[t] \notin queue_paths')]_vars
    /\ [][\A t \in Threads :
             (Uploading(t) /\ cur[t] \notin Range(image_queue)
                /\ ppc = "idle" /\ ppc' \in {"bp_put", "bp_ret"}
                /\ parg' = cur[t])
             => ppc' = "bp_put"]_vars

\* C23 as claimed: after a failed upload of a the worker's next attempt is for
\* a again: when it sleeps before retrying, a is at the head of image_queue,
\* ahead of every path enqueued after it.
C23_HeadOfLineBlocking ==
    \A t \in Threads :
        wpc[t] = "backoff" =>
            (image_queue # <<>> /\ Head(image_queue) = cur[t])

\* C23 as amended: the order of enqueue is the order of attempts only while no
\* upload fails.  A failed path is put back at the tail of image_queue, behind
\* every path queued at that moment; after the sleep the worker starts a new
\* iteration, which dequeues the head, so that the paths queued behind the
\* failed one are attempted before it is retried.
C23_FailedGoesToTail ==
    /\ [][\A t \in Threads :
             (wpc[t] = "putback" /\ wpc'[t] = "addback")
             => image_queue' = Append(image_queue, cur[t])]_vars
    /\ [][\A t \in Threads :
             (wpc[t] = "backoff" /\ wpc'[t] # "backoff")
             => wpc'[t] \in {"loop", "none"}]_vars
    /\ [][\A t \in Threads :
             (wpc[t] = "get" /\ wpc'[t] = "discard")
             => (cur'[t] = Head(image_queue)
                   /\ image_queue' = Tail(image_queue))]_vars
    /\ [](\A t \in Threads :
             (wpc[t] = "backoff" /\ ppc = "idle" /\ ncalls = 0)
             => image_queue[Len(image_queue)] = cur[t])

\* the first path failed and waits in the queue, undelivered, while the path
\* enqueued after it is being uploaded
C23_Witness ==
    \E t \in Threads :
        /\ wpc[t] = "xfer" /\ cur[t] = F(0, "png")
        /\ image_queue = <<F(0, "jpg")>> /\ uploads[F(0, "jpg")] = 0
        /\ any_fail /\ crashes = 0


\* C24: when an upload fails with an authentication error while authenticated
\* is True, authenticated is False afterwards, so that the next upload_image
\* call authenticates again.
C24_ReauthenticateOnAuthError ==
    [][\A t \in Threads :
          (authenticated /\ UploadRaised(t, "auth")) => ~authenticated']_vars


\* a step in which authenticate() is called: start(), or upload_image when
\* authenticated is False
CallsAuthenticate ==
    MainStart \/ \E t \in Threads : (~authenticated /\ UploadCall(t))

\* C25: an authenticate() call that finds no persisted credential, or an
\* expired one whose refresh fails, returns True when the full flow
\* (LocalWebserverAuth) would go through and the credentials can be saved.
C25_FallbackToFullFlow ==
    [][\A load \in {"none", "expired"}, works \in [Steps -> BOOLEAN] :
          (/\ works["LocalWebserverAuth"]
           /\ load = "expired" => ~works["Refresh"]
           /\ CallsAuthenticate
           /\ \E went \in BOOLEAN : AuthWith(load, works, TRUE, went))
          => auth_ret' = "True"]_vars


\* C26: when authenticate() fails in upload_image the call returns False at
\* once: authenticate() is not called again in that attempt, nothing is
\* uploaded, and the worker puts the path back into image_queue and
\* queue_paths before it sleeps.
C26_AuthFailureRequeues ==
    /\ [][\A t \in Threads :
             (wpc[t] = "call" /\ res'[t] = "fail")
             => /\ wpc'[t] = "putback"
                /\ ~authenticated /\ ~authenticated' /\ auth_ret' = "False"
                /\ UNCHANGED <<uploads, spool, image_queue, queue_paths>>]_vars
    /\ [][\A t \in Threads :
             (wpc[t] \in {"putback", "addback"}
                /\ wpc'[t] \notin {wpc[t], "none"})
             => /\ wpc'[t] \in {"addback", "backoff"}
                /\ UNCHANGED <<uploads, authenticated, auth_ret>>]_vars
    /\ [](\A t \in Threads :
             (wpc[t] = "backoff" /\ ~authenticated)
             => /\ res[t] = "fail" /\ meta[t] = "none" /\ auth_ret = "False"
                /\ cur[t] \in Range(image_queue)
                /\ cur[t] \in queue_paths)
    /\ \A t \in Threads :
          (wpc[t] = "putback" /\ ~authenticated)
             ~> (wpc[t] \in {"backoff", "none"})

\* authentication failed for a dequeued path: nothing was uploaded and the
\* path is back in the queue and the set
C26_Witness ==
    \E t \in Threads :
        /\ wpc[t] = "backoff" /\ ~authenticated /\ auth_ret = "False"
        /\ cur[t] \in Range(image_queue) /\ cur[t] \in queue_paths
        /\ uploads[cur[t]] = 0 /\ cur[t] \in spool


\* C27: the recovery scan runs in the constructor, once per QueueUploader,
\* when no worker thread exists; the worker thread is started only on a
\* constructed uploader, and afterwards nothing but the worker's put-back adds
\* to image_queue (no producer being present here).
C27_RecoveryBeforeWorker ==
    /\ [][phase' = "ready"
             => /\ phase \in {"off", "ready"}
                /\ ~running /\ upload_thread = 0
                /\ \A t \in Threads : wpc[t] = "none" /\ wpc'[t] = "none"]_vars
    /\ [][\A t \in Threads :
             (wpc[t] = "none" /\ wpc'[t] # "none")
             => (phase = "ready" /\ phase' = "serving"
                   /\ UNCHANGED <<image_queue, queue_paths>>)]_vars
    /\ [][(ncalls = 0 /\ phase # "off"
             /\ Len(image_queue') > Len(image_queue))
             => \E t \in Threads : wpc[t] = "putback"]_vars
    /\ [](phase = "off" => (image_queue = <<>> /\ queue_paths = {}))

\* the worker is about to make its first dequeue: the whole recovery scan is
\* in the queue and in the set
C27_Witness ==
    \E t \in Threads :
        /\ wpc[t] = "get" /\ phase = "serving" /\ ~any_fail
        /\ Len(image_queue) = 2 /\ queue_paths = Range(image_queue)
        /\ Range(image_queue) = Artifacts(spool) /\ Delivered = {}


\* threads that are inside the process_queue loop
Consumers == {t \in Threads : wpc[t] \notin {"none", "exit"}}

\* C28: whatever start() and stop() calls are made, at most one thread
\* executes the process_queue loop at any time.
C28_SingleConsumer == Cardinality(Consumers) <= 1


\* authenticate() calls in progress: one per worker inside it, one for a
\* start() that has entered it
AuthInFlight ==
    Cardinality({t \in Threads : wpc[t] = "auth"})
        + (IF phase = "restarting" THEN 1 ELSE 0)

\* C29: at most one authenticate() call is in progress at any time.
C29_OneAuthInFlight == AuthInFlight <= 1


\* the metadata step of this iteration has created the record
Recorded(t) == meta[t] \in {"id", "inactive", "linked", "nolink"}

\* C30 as claimed: the file is deleted before the Metadata Recorder is called:
\* the record of a path is never created while its file is still in the
\* spool.
C30_DeleteBeforeRecord ==
    \A t \in Threads : Recorded(t) => cur[t] \notin spool

\* C30 as amended: after a successful upload the Metadata Recorder is called
\* first, then the session link is made, both inside upload_image and while
\* the file is still in the spool; the file is deleted last, by process_queue,
\* after upload_image has returned True.
C30_DeleteAfterMetadata ==
    /\ [](\A t \in Threads :
             wpc[t] \in {"record", "link"}
             => (cur[t] \in spool /\ uploads[cur[t]] >= 1))
    /\ [][\A t \in Threads :
             (wpc[t] = "link" /\ wpc'[t] \notin {"link", "none"})
             => (meta[t] = "id" /\ wpc'[t] = "remove")]_vars
    /\ [][\A t \in Threads :
             (cur[t] \in spool /\ cur[t] \notin spool')
             => /\ wpc[t] = "remove" /\ res[t] = "ok"
                /\ meta[t] \in {"noid", "inactive", "linked", "nolink"}]_vars

\* the record and the session link of a path exist, its file is still in the
\* spool and the delete is the next step
C30_Witness ==
    \E t \in Threads :
        /\ wpc[t] = "remove" /\ meta[t] = "linked" /\ res[t] = "ok"
        /\ cur[t] \in spool /\ uploads[cur[t]] = 1


\* C32: every path held in image_queue refers to a file that exists in the
\* spool; no entry stays queued for a file the worker has uploaded and deleted.
C32_QueuedFileExists == Range(image_queue) \subseteq spool


C31_LinkOnlyActiveSession ==
    [][\A t \in Threads :
          (wpc[t] = "link_send" /\ LinkSend(t))
          => /\ active
             /\ session_id \in SessionIds
             /\ sessions[session_id] = "open"]_vars


\* C34: between Session calls that are made one after the other, whatever the
\* database calls returned, active is True exactly when session_id is not
\* None, and get_session_id() returns None exactly when no session is active.
C34_SessionInvariant ==
    Quiet => /\ active <=> session_id # 0
             /\ get_session_id = 0 <=> ~active

\* a second session is active after the first was ended, and the last call
\* was an end() that failed in the database
C34_Witness ==
    /\ Quiet /\ active /\ session_id = 2 /\ sessions[1] = "ended"
    /\ \E c \in Commands : sret[c] = "noend"

\* C35: with Session calls made one after the other, a call that fails leaves
\* the session as it was.  start() with a session active returns failure and
\* creates no database session; end() with no session active returns
\* failure; a create_session that fails leaves the session inactive; an
\* end_session that fails leaves the session active with the same id.
C35_SessionErrorsIdempotent ==
    /\ [][\A c \in Commands :
             (spc[c] = "start_test" /\ active /\ StartTest(c))
             => /\ spc'[c] = "idle" /\ sret'[c] = "already"
                /\ UNCHANGED <<active, session_id, sessions>>]_vars
    /\ [][\A c \in Commands :
             (spc[c] = "end_test" /\ ~active /\ EndTest(c))
             => /\ spc'[c] = "idle" /\ sret'[c] = "noactive"
                /\ UNCHANGED <<active, session_id, sessions>>]_vars
    /\ [][\A c \in Commands :
             (spc[c] = "create" /\ sessions' = sessions /\ CreateSession(c))
             => /\ spc'[c] = "idle" /\ sret'[c] = "nocreate"
                /\ ~active' /\ session_id' = 0]_vars
    /\ [][\A c \in Commands :
             (spc[c] = "end_call" /\ sessions' = sessions /\ EndSession(c))
             => /\ spc'[c] = "idle" /\ sret'[c] = "noend"
                /\ active' /\ session_id' = session_id
                /\ session_id \in SessionIds]_vars

\* an end() has just failed in the database: session 1 is still active and
\* open
C35_Witness ==
    /\ Quiet /\ active /\ session_id = 1 /\ sessions[1] = "open"
    /\ \E c \in Commands : sret[c] = "noend"


\* C36: at most one session is open in the database at any time, and when no
\* Session call is in progress every open session is the one recorded in
\* session_id, so that end() can close it.
C36_OneOpenSession ==
    /\ Cardinality({i \in SessionIds : sessions[i] = "open"}) <= 1
    /\ Quiet => \A i \in SessionIds : sessions[i] = "open" => session_id = i


\* C37: at most one _erase_process thread is alive at any time, and when
\* stop_erasing() has returned "Erasing process stopped" no such thread is
\* alive.
C37_OneEraseThread ==
    /\ Cardinality({k \in Erases : Alive(k)}) <= 1
    /\ mret = "stopped" => \A k \in Erases : ~Alive(k)

====
